---- MODULE Spec2Model ----
(***************************************************************************)
(* Model of the vista wallpaper grid: internal/ui Grid (NewGrid, Run, the  *)
(* draw / pagination helpers, parseKey) and the part of cmd/vista main     *)
(* that owns the grid's lifetime.                                          *)
(*                                                                         *)
(* One foreground thread runs Grid.Run; background goroutines are the      *)
(* stdin reader, the page-fetch tasks started by maybeLoadMore and the     *)
(* apply tasks started by the "s" key.  Every iteration of the for/select  *)
(* loop (handler, then draw, then maybeLoadMore) is one action.            *)
(***************************************************************************)
EXTENDS Integers, Sequences, FiniteSets, Bags, TLC

\* ---------------------------------------------------------------- bounds
\* Largest lastPage reported by the catalog.
MaxLastPage == 2
\* Largest number of chunks the model lets wait in inputCh.
MaxPending == 1
\* Largest number of apply-without-exit tasks alive at once.
MaxBg == 1
\* Largest selectedIndex, scrollRow and column count of the grids on which
\* ensureVisible is called on its own.
MaxIndex == 6
MaxScroll == 3
MaxCols == 3
\* Largest terminal width layout is called with on its own.
MaxWidth == 120
\* Largest number of chunks waiting in inputCh where the order of typed
\* chunks is followed.
MaxQueued == 2
\* Longest chunk handed to parseKey on its own.
MaxChunkLen == 3

\* ------------------------------------------------------ program constants
minCellWidth == 20
minCellHeight == 5
labelHeight == 1
loadChCap == 1
inputChCap == 10

\* keyAction values (iota order)
actionNone == 0
actionUp == 1
actionDown == 2
actionLeft == 3
actionRight == 4
actionSelect == 5
actionSetBg == 6
actionDelete == 7
actionOpen == 8
actionHelp == 9
actionQuit == 10

\* ------------------------------------------------------------ environment
\* Terminal sizes (width, height) a session may run in; term.GetSize is
\* taken to answer the same size for the whole session.
TermSizes ==
    {<<40, 6>>}

\* Lengths of the first page of results main hands to NewGrid (never empty).
FirstLens ==
    {2}

\* Numbers of items a later page answers.
PageLens ==
    {0, 1}

\* The worlds a session may run in: the last id the catalog holds (a page
\* past it answers no items), the ids whose Path is an absolute local path,
\* the thumbnails the renderer fails on, and the ids whose thumbnail
\* download fails.
Environments ==
    { [last |-> 3, local |-> {1, 2}, badImages |-> {1}, failThumbs |-> {3}] }

\* Input chunks the user types in a session (bytes as numbers).
TypedChunks ==
    { <<107>>, <<106>>, <<104>>, <<108>>, <<13>>, <<115>>, <<100>>,
      <<111>>, <<63>>, <<113>>, <<120>> }

\* ---------------------------------------------------------- pure helpers
Max(a, b) ==
    IF a >= b THEN a ELSE b

\* layout(): cols, cellW, cellH from the terminal width
layoutCols(w) ==
    IF w \div minCellWidth < 1 THEN 1 ELSE w \div minCellWidth

layoutCellW(w) ==
    w \div layoutCols(w)

\* layoutCellH with the 16:9 ratio taken without the character aspect
layoutCellHNoAspect(w) ==
    IF (layoutCellW(w) * 9) \div 16 < minCellHeight
    THEN minCellHeight
    ELSE (layoutCellW(w) * 9) \div 16

layoutCellH(w) ==
    IF (layoutCellW(w) * 9) \div 32 < minCellHeight
    THEN minCellHeight
    ELSE (layoutCellW(w) * 9) \div 32

\* visibleRows(): how many grid rows fit in the terminal
visibleRowsOf(h, ch) ==
    IF h \div (ch + labelHeight) < 1 THEN 1 ELSE h \div (ch + labelHeight)

\* ensureVisible that scrolls down one row at a time
ensureVisibleOneRow(sel, scr, c, vr) ==
    IF sel \div c < scr THEN sel \div c
    ELSE IF sel \div c >= scr + vr THEN scr + 1
    ELSE scr

\* ensureVisible with the lower clamp one row short
ensureVisibleShort(sel, scr, c, vr) ==
    IF sel \div c < scr THEN sel \div c
    ELSE IF sel \div c >= scr + vr THEN (sel \div c) - vr
    ELSE scr

\* ensureVisible(): the new scrollRow
ensureVisible(sel, scr, c, vr) ==
    IF sel \div c < scr THEN sel \div c
    ELSE IF sel \div c >= scr + vr THEN (sel \div c) - vr + 1
    ELSE scr

\* parseKey that looks at the first byte of a chunk of any length
parseKeyFirstByte(b) ==
    IF Len(b) = 0 THEN actionNone
    ELSE IF b[1] \in {113, 3} THEN actionQuit
    ELSE IF b[1] \in {13, 10} THEN actionSelect
    ELSE IF b[1] = 104 THEN actionLeft
    ELSE IF b[1] = 106 THEN actionDown
    ELSE IF b[1] = 107 THEN actionUp
    ELSE IF b[1] = 108 THEN actionRight
    ELSE IF b[1] = 115 THEN actionSetBg
    ELSE IF b[1] = 100 THEN actionDelete
    ELSE IF b[1] = 111 THEN actionOpen
    ELSE IF b[1] = 63 THEN actionHelp
    ELSE IF Len(b) >= 3 /\ b[1] = 27 /\ b[2] = 91 /\ b[3] = 65 THEN actionUp
    ELSE IF Len(b) >= 3 /\ b[1] = 27 /\ b[2] = 91 /\ b[3] = 66 THEN actionDown
    ELSE IF Len(b) >= 3 /\ b[1] = 27 /\ b[2] = 91 /\ b[3] = 67 THEN actionRight
    ELSE IF Len(b) >= 3 /\ b[1] = 27 /\ b[2] = 91 /\ b[3] = 68 THEN actionLeft
    ELSE actionNone

\* parseKey
parseKey(b) ==
    IF Len(b) = 0 THEN actionNone
    ELSE IF Len(b) = 1 /\ b[1] \in {113, 3} THEN actionQuit
    ELSE IF Len(b) = 1 /\ b[1] \in {13, 10} THEN actionSelect
    ELSE IF Len(b) = 1 /\ b[1] = 104 THEN actionLeft
    ELSE IF Len(b) = 1 /\ b[1] = 106 THEN actionDown
    ELSE IF Len(b) = 1 /\ b[1] = 107 THEN actionUp
    ELSE IF Len(b) = 1 /\ b[1] = 108 THEN actionRight
    ELSE IF Len(b) = 1 /\ b[1] = 115 THEN actionSetBg
    ELSE IF Len(b) = 1 /\ b[1] = 100 THEN actionDelete
    ELSE IF Len(b) = 1 /\ b[1] = 111 THEN actionOpen
    ELSE IF Len(b) = 1 /\ b[1] = 63 THEN actionHelp
    ELSE IF Len(b) >= 3 /\ b[1] = 27 /\ b[2] = 91 /\ b[3] = 65 THEN actionUp
    ELSE IF Len(b) >= 3 /\ b[1] = 27 /\ b[2] = 91 /\ b[3] = 66 THEN actionDown
    ELSE IF Len(b) >= 3 /\ b[1] = 27 /\ b[2] = 91 /\ b[3] = 67 THEN actionRight
    ELSE IF Len(b) >= 3 /\ b[1] = 27 /\ b[2] = 91 /\ b[3] = 68 THEN actionLeft
    ELSE actionNone

\* Go slices are 0-indexed; At reads element i of a slice.
At(s, i) ==
    s[i + 1]

\* append(s[:k], s[k+1:]...)
RemoveAt(s, k) ==
    [i \in 1..(Len(s) - 1) |-> IF i <= k THEN s[i] ELSE s[i + 1]]

\* ------------------------------------------------------------------ state
VARIABLES
    pc,            \* main thread: "created", "loop", "returned", "exited", "crashed"
                   \* (and the call counts of the single-method specifications)
    termW, termH,  \* the terminal size term.GetSize answers
    env,           \* the world outside: local paths, bad images, failing thumbs
    wallpapers,    \* g.wallpapers
    thumbPaths,    \* g.thumbPaths (0 is the empty path)
    rendered,      \* g.rendered: index -> rendered text
    selected, scrollRow, cols, cellW, cellH,
    prevSelected, prevScrollRow, prevCount,
    showHelp,
    nextPage, lastPage, loading,
    loadCh,        \* g.loadCh, capacity 1
    fetchTasks,    \* the fetchNextPage goroutines that have not sent yet
    requested,     \* the page numbers handed to client.SearchPage, in order
    inputCh,       \* inputCh of Run
    stdin,         \* the reader goroutine: "off", "reading", "closed"
    bgTasks,       \* the setWallpaperBg goroutines that have not run yet: a bag
                   \* of their idx arguments
    rawMode, cursorHidden,
    tempDir,       \* TRUE while the thumbnail directory exists
    result,        \* what Run returned: "none", "empty", "path", "error"
    exitCode,      \* the process's exit status, -1 while it runs
    ops,           \* what the returning handler did to the outside, in order
    lastDraw       \* what the last step drew: the event handled, prevSelected,
                   \* prevScrollRow and prevCount as draw() found them, what
                   \* draw() wrote, the cells it called the renderer for and
                   \* the text it wrote in each cell (NoDraw after a step
                   \* without draw())

vars ==
    << pc, termW, termH, env, wallpapers, thumbPaths, rendered, selected,
       scrollRow, cols, cellW, cellH, prevSelected, prevScrollRow, prevCount,
       showHelp, nextPage, lastPage, loading, loadCh, fetchTasks, requested,
       inputCh, stdin, bgTasks, rawMode, cursorHidden, tempDir, result,
       exitCode, ops, lastDraw >>

\* The catalog item with identifier id: Path is absolute for history entries.
Item(id, e) ==
    [id |-> id, local |-> id \in e.local]

\* The first catalog id of page p >= 2 (page 1 holds the ids 1 and 2).
PageBase(p) ==
    p + 1

SeqOfIds(lo, n, e) ==
    [i \in 1..n |-> Item(lo + i - 1, e)]

\* wallpaper.Download(wp.Thumbs.Small, tempDir): the local path, "" on error
ThumbOf(it, e) ==
    IF it.id \in e.failThumbs THEN 0 ELSE it.id

\* renderer.Render(thumbPath, cellW, cellH), with imageStr's placeholder
RenderText(path, e) ==
    IF path \in e.badImages
    THEN [kind |-> "placeholder", src |-> 0]
    ELSE [kind |-> "image", src |-> path]

\* make(map[int]string)
EmptyCache ==
    [i \in {} |-> [kind |-> "placeholder", src |-> 0]]

NoDraw ==
    [ev |-> "-", pSel |-> -1, pScr |-> 0, pCnt |-> 0,
     clear |-> FALSE, overlay |-> FALSE, cells |-> {}, renders |-> {},
     texts |-> EmptyCache]

\* NewGrid, called by main with the first page of results
Init ==
    /\ pc = "created"
    /\ \E sz \in TermSizes : termW = sz[1] /\ termH = sz[2]
    /\ env \in Environments
    /\ \E n \in FirstLens : wallpapers = SeqOfIds(1, n, env)
    /\ thumbPaths = [i \in 1..Len(wallpapers) |-> 0]
    /\ rendered = EmptyCache
    /\ selected = 0 /\ scrollRow = 0
    /\ cols = 0 /\ cellW = 0 /\ cellH = 0
    /\ prevSelected = -1 /\ prevScrollRow = 0 /\ prevCount = 0
    /\ showHelp = FALSE
    /\ nextPage = 2
    /\ lastPage \in 1..MaxLastPage
    /\ loading = FALSE
    /\ loadCh = << >>
    /\ fetchTasks = << >>
    /\ requested = << >>
    /\ inputCh = << >>
    /\ stdin = "off"
    /\ bgTasks = EmptyBag
    /\ rawMode = FALSE /\ cursorHidden = FALSE
    /\ tempDir = TRUE
    /\ result = "none"
    /\ exitCode = -1
    /\ ops = << >>
    /\ lastDraw = NoDraw

\* ------------------------------------------------------------------- draw
\* needFull that forgets the scrollRow comparison
needFullNoScroll(pSel, pScr, pCnt, scr, cnt) ==
    pSel < 0 \/ cnt # pCnt

\* draw(): needFull
needFull(pSel, pScr, pCnt, scr, cnt) ==
    pSel < 0 \/ scr # pScr \/ cnt # pCnt

\* inViewport without the test against the last row on screen
inViewportNoUpper(idx, cnt, c, scr, vr) ==
    /\ idx >= 0
    /\ idx < cnt
    /\ idx \div c >= scr

\* writeCellTo(): the cell is written only when it exists and is on screen
inViewport(idx, cnt, c, scr, vr) ==
    /\ idx >= 0
    /\ idx < cnt
    /\ idx \div c >= scr
    /\ idx \div c < scr + vr

\* drawCells whose incremental repaint leaves the old cell alone
drawCellsOnlyNew(help, pSel, pScr, pCnt, sel, scr, cnt, c, vr) ==
    IF help THEN {}
    ELSE IF needFull(pSel, pScr, pCnt, scr, cnt)
         THEN {i \in 0..(cnt - 1) : inViewport(i, cnt, c, scr, vr)}
    ELSE IF sel # pSel
         THEN {i \in {sel} : inViewport(i, cnt, c, scr, vr)}
    ELSE {}

\* draw(): the cells handed to writeCellTo that it writes
drawCells(help, pSel, pScr, pCnt, sel, scr, cnt, c, vr) ==
    IF help THEN {}
    ELSE IF needFull(pSel, pScr, pCnt, scr, cnt)
         THEN {i \in 0..(cnt - 1) : inViewport(i, cnt, c, scr, vr)}
    ELSE IF sel # pSel
         THEN {i \in {pSel, sel} : inViewport(i, cnt, c, scr, vr)}
    ELSE {}

\* drawClear that forgets the item-count comparison
drawClearNoCount(help, pSel, pScr, pCnt, scr, cnt) ==
    help \/ pSel < 0 \/ scr # pScr

\* draw(): whether the batch starts with the screen clear ESC[H ESC[2J
drawClear(help, pSel, pScr, pCnt, scr, cnt) ==
    help \/ needFull(pSel, pScr, pCnt, scr, cnt)

\* rendersOf that asks the renderer without looking in the cache
rendersOfNoLookup(R, cells, T) ==
    {j \in cells : j < Len(T) /\ At(T, j) # 0}

\* imageStr(): the cells for which renderer.Render is called: those written
\* with a thumbnail path and no entry in g.rendered
rendersOf(R, cells, T) ==
    {j \in cells : j < Len(T) /\ At(T, j) # 0 /\ j \notin DOMAIN R}

\* placeholderLines(g.cellW, g.cellH)
placeholderLines ==
    [kind |-> "placeholder", src |-> 0]

\* imageStr that hands an empty thumbnail path to the renderer
imageStrRenderEmpty(R, j, T, e) ==
    IF j \in DOMAIN R THEN R[j]
    ELSE RenderText(At(T, j), e)

\* imageStr(idx, thumbPath): the text written in cell idx
imageStr(R, j, T, e) ==
    IF At(T, j) = 0 THEN placeholderLines
    ELSE IF j \in DOMAIN R THEN R[j]
    ELSE RenderText(At(T, j), e)

\* imageStr(): the cache after the cells were written; a cell with an empty
\* thumbnail path is drawn as the placeholder and not cached
cacheAfter(R, cells, T, e) ==
    [i \in (DOMAIN R) \cup {j \in cells : j < Len(T) /\ At(T, j) # 0} |->
        IF i \in DOMAIN R THEN R[i] ELSE RenderText(At(T, i), e)]

\* shouldLoad without the g.nextPage > g.lastPage test
shouldLoadAnyPage(ld, np, lp, cnt, sel, c, vr) ==
    /\ ~ld
    /\ \/ (cnt + c - 1) \div c < vr
       \/ sel \div c >= ((cnt + c - 1) \div c) - vr

\* shouldLoad that waits for the selection to pass the last screenful
shouldLoadPastEnd(ld, np, lp, cnt, sel, c, vr) ==
    /\ ~ld
    /\ np <= lp
    /\ \/ (cnt + c - 1) \div c < vr
       \/ sel \div c > ((cnt + c - 1) \div c) - vr

\* shouldLoad without the g.loading test
shouldLoadAlways(ld, np, lp, cnt, sel, c, vr) ==
    /\ np <= lp
    /\ \/ (cnt + c - 1) \div c < vr
       \/ sel \div c >= ((cnt + c - 1) \div c) - vr

\* maybeLoadMore(): whether it starts a fetch
shouldLoad(ld, np, lp, cnt, sel, c, vr) ==
    /\ ~ld
    /\ np <= lp
    /\ \/ (cnt + c - 1) \div c < vr
       \/ sel \div c >= ((cnt + c - 1) \div c) - vr

\* The end of every loop iteration (and of Run's set-up): draw(), then
\* maybeLoadMore(), on the state the handler left.
DrawAndLoad(ev, W, T, R, sel, scr, pSel, help, np, ld, c, ch) ==
    LET vr == visibleRowsOf(termH, ch)
        cells == drawCells(help, pSel, prevScrollRow, prevCount, sel, scr, Len(W), c, vr)
        start == shouldLoad(ld, np, lastPage, Len(W), sel, c, vr)
    IN  /\ wallpapers' = W
        /\ thumbPaths' = T
        /\ rendered' = cacheAfter(R, cells, T, env)
        /\ selected' = sel
        /\ scrollRow' = scr
        /\ showHelp' = help
        /\ nextPage' = np
        /\ lastDraw' = [ev |-> ev, pSel |-> pSel,
                        pScr |-> prevScrollRow, pCnt |-> prevCount,
                        clear |-> drawClear(help, pSel, prevScrollRow, prevCount, scr, Len(W)),
                        overlay |-> help,
                        cells |-> cells,
                        renders |-> rendersOf(R, cells, T),
                        texts |-> [j \in cells |-> imageStr(R, j, T, env)]]
        /\ prevSelected' = sel
        /\ prevScrollRow' = scr
        /\ prevCount' = Len(W)
        /\ loading' = (ld \/ start)
        /\ fetchTasks' = IF start
                         THEN Append(fetchTasks, [st |-> "spawned", page |-> 0])
                         ELSE fetchTasks

\* The variables DrawAndLoad does not set.
envVars ==
    << termW, termH, env, lastPage >>

layoutVars ==
    << cols, cellW, cellH >>

termVars ==
    << rawMode, cursorHidden >>

exitVars ==
    << tempDir, result, exitCode, ops >>

gridVars ==
    << wallpapers, thumbPaths, rendered, selected, scrollRow, prevSelected,
       prevScrollRow, prevCount, showHelp, nextPage, loading, fetchTasks >>

\* -------------------------------------------------------------------- Run
\* The process has ended: no goroutine is left and no channel holds anything.
ProcessGone ==
    /\ inputCh' = << >>
    /\ loadCh' = << >>
    /\ fetchTasks' = << >>
    /\ bgTasks' = EmptyBag
    /\ stdin' = "off"

\* prefetchThumbs(): download every thumbnail that is still missing
prefetchThumbs(W, T, e) ==
    [i \in 1..Len(W) |-> IF T[i] = 0 THEN ThumbOf(W[i], e) ELSE T[i]]

\* Run, up to the first select: raw mode, layout, hide cursor, prefetch,
\* start the reader, draw, maybeLoadMore
RunStart ==
    /\ pc = "created"
    /\ pc' = "loop"
    /\ rawMode' = TRUE
    /\ cursorHidden' = TRUE
    /\ cols' = layoutCols(termW)
    /\ cellW' = layoutCellW(termW)
    /\ cellH' = layoutCellH(termW)
    /\ stdin' = "reading"
    /\ DrawAndLoad("start", wallpapers, prefetchThumbs(wallpapers, thumbPaths, env), rendered,
                   selected, scrollRow, prevSelected, showHelp, nextPage, loading,
                   layoutCols(termW), layoutCellH(termW))
    /\ UNCHANGED << envVars, exitVars, loadCh, requested, inputCh, bgTasks >>

\* RunRawFail that hides the cursor before it asks for raw mode
RunRawFailCursorHidden ==
    /\ pc = "created"
    /\ pc' = "returned"
    /\ result' = "error"
    /\ cursorHidden' = TRUE
    /\ lastDraw' = NoDraw
    /\ UNCHANGED << envVars, layoutVars, rawMode, gridVars, tempDir, exitCode,
                    ops, loadCh, requested, inputCh, stdin, bgTasks >>

\* Run: term.MakeRaw fails
RunRawFail ==
    /\ pc = "created"
    /\ pc' = "returned"
    /\ result' = "error"
    /\ lastDraw' = NoDraw
    /\ UNCHANGED << envVars, layoutVars, termVars, gridVars, tempDir, exitCode,
                    ops, loadCh, requested, inputCh, stdin, bgTasks >>

\* MainExit that ends with status 0 whatever Run returned
MainExitStatusZero ==
    /\ pc = "returned"
    /\ pc' = "exited"
    /\ exitCode' = 0
    /\ tempDir' = IF result = "error" THEN tempDir ELSE FALSE
    /\ lastDraw' = NoDraw
    /\ ProcessGone
    /\ UNCHANGED << envVars, layoutVars, termVars, wallpapers, thumbPaths, rendered,
                    selected, scrollRow, prevSelected, prevScrollRow, prevCount,
                    showHelp, nextPage, loading, result, ops, requested >>

\* main: after grid.Run() returns.  An error goes through os.Exit(1), which
\* runs no deferred call; otherwise main returns and the deferred
\* grid.Cleanup() removes the thumbnail directory.  The process ends either
\* way, and its goroutines and channels with it.
MainExit ==
    /\ pc = "returned"
    /\ pc' = "exited"
    /\ IF result = "error"
       THEN exitCode' = 1 /\ tempDir' = tempDir
       ELSE exitCode' = 0 /\ tempDir' = FALSE
    /\ lastDraw' = NoDraw
    /\ ProcessGone
    /\ UNCHANGED << envVars, layoutVars, termVars, wallpapers, thumbPaths, rendered,
                    selected, scrollRow, prevSelected, prevScrollRow, prevCount,
                    showHelp, nextPage, loading, result, ops, requested >>

\* ------------------------------------------------------- stdin goroutine
Alive ==
    pc \in {"loop", "returned"}

\* os.Stdin.Read returns a chunk, which is sent on inputCh.  Nothing
\* receives from inputCh once Run has returned, so the reader's steps are
\* followed only while the loop runs.
ReaderPush ==
    /\ pc = "loop"
    /\ stdin = "reading"
    /\ Len(inputCh) < inputChCap
    /\ Len(inputCh) < MaxPending
    /\ \E chunk \in TypedChunks : inputCh' = Append(inputCh, chunk)
    /\ lastDraw' = NoDraw
    /\ UNCHANGED << pc, envVars, layoutVars, termVars, gridVars, exitVars, loadCh,
                    requested, stdin, bgTasks >>

\* os.Stdin.Read returns an error: close(inputCh)
ReaderClose ==
    /\ pc = "loop"
    /\ stdin = "reading"
    /\ stdin' = "closed"
    /\ lastDraw' = NoDraw
    /\ UNCHANGED << pc, envVars, layoutVars, termVars, gridVars, exitVars, loadCh,
                    requested, inputCh, bgTasks >>

\* ------------------------------------------------------ the select loop
\* case key, ok := <-inputCh with ok, and parseKey(key) = a
KeyIs(a) ==
    /\ pc = "loop"
    /\ inputCh # << >>
    /\ parseKey(Head(inputCh)) = a

\* What a handler that stays in the loop leaves alone.
StayFrame ==
    /\ pc' = pc
    /\ inputCh' = Tail(inputCh)
    /\ UNCHANGED << envVars, layoutVars, termVars, exitVars, loadCh, requested,
                    stdin >>

\* ReturnFrame without the deferred term.Restore and cursor-show
ReturnFrameNoDefer(res, done) ==
    /\ pc' = "returned"
    /\ result' = res
    /\ ops' = done
    /\ lastDraw' = NoDraw
    /\ UNCHANGED << envVars, layoutVars, termVars, tempDir, exitCode, loadCh,
                    requested, stdin, bgTasks, selected, scrollRow, prevSelected,
                    prevScrollRow, prevCount, showHelp, nextPage, loading,
                    fetchTasks >>

\* return from Run inside the loop: the deferred term.Restore and cursor-show
\* run; nothing is drawn and maybeLoadMore is not called.
ReturnFrame(res, done) ==
    /\ pc' = "returned"
    /\ result' = res
    /\ ops' = done
    /\ rawMode' = FALSE
    /\ cursorHidden' = FALSE
    /\ lastDraw' = NoDraw
    /\ UNCHANGED << envVars, layoutVars, tempDir, exitCode, loadCh, requested,
                    stdin, bgTasks, selected, scrollRow, prevSelected,
                    prevScrollRow, prevCount, showHelp, nextPage, loading,
                    fetchTasks >>

\* moveUp that wraps from the first row to the last item
moveUpWrap(sel, c, n) ==
    IF sel >= c THEN sel - c ELSE n - 1

moveUp(sel, c, n) ==
    IF sel >= c THEN sel - c ELSE sel

\* moveDown that goes to the last item when the cell below does not exist
moveDownToLast(sel, c, n) ==
    IF sel + c < n THEN sel + c ELSE n - 1

moveDown(sel, c, n) ==
    IF sel + c < n THEN sel + c ELSE sel

moveLeft(sel, c, n) ==
    IF sel > 0 THEN sel - 1 ELSE sel

\* moveRight with the bound off by one
moveRightPastEnd(sel, c, n) ==
    IF sel < n THEN sel + 1 ELSE sel

moveRight(sel, c, n) ==
    IF sel < n - 1 THEN sel + 1 ELSE sel

\* A move handler: ensureVisible() runs only when the selection moved.
MoveTo(sel) ==
    /\ StayFrame
    /\ DrawAndLoad("move", wallpapers, thumbPaths, rendered, sel,
                   IF sel # selected
                   THEN ensureVisible(sel, scrollRow, cols, visibleRowsOf(termH, cellH))
                   ELSE scrollRow,
                   prevSelected, showHelp, nextPage, loading, cols, cellH)
    /\ UNCHANGED << bgTasks >>

HandleUp ==
    /\ KeyIs(actionUp)
    /\ MoveTo(moveUp(selected, cols, Len(wallpapers)))

HandleDown ==
    /\ KeyIs(actionDown)
    /\ MoveTo(moveDown(selected, cols, Len(wallpapers)))

HandleLeft ==
    /\ KeyIs(actionLeft)
    /\ MoveTo(moveLeft(selected, cols, Len(wallpapers)))

HandleRight ==
    /\ KeyIs(actionRight)
    /\ MoveTo(moveRight(selected, cols, Len(wallpapers)))

\* actionNone: no case of the switch matches
HandleNone ==
    /\ KeyIs(actionNone)
    /\ StayFrame
    /\ DrawAndLoad("key", wallpapers, thumbPaths, rendered, selected, scrollRow,
                   prevSelected, showHelp, nextPage, loading, cols, cellH)
    /\ UNCHANGED << bgTasks >>

\* actionOpen: openURL starts the browser; the grid is not touched
HandleOpen ==
    /\ KeyIs(actionOpen)
    /\ StayFrame
    /\ DrawAndLoad("key", wallpapers, thumbPaths, rendered, selected, scrollRow,
                   prevSelected, showHelp, nextPage, loading, cols, cellH)
    /\ UNCHANGED << bgTasks >>

\* HandleHelp that leaves g.prevSelected alone
HandleHelpNoReset ==
    /\ KeyIs(actionHelp)
    /\ StayFrame
    /\ DrawAndLoad("key", wallpapers, thumbPaths, rendered, selected, scrollRow,
                   prevSelected, ~showHelp, nextPage, loading, cols, cellH)
    /\ UNCHANGED << bgTasks >>

\* actionHelp
HandleHelp ==
    /\ KeyIs(actionHelp)
    /\ StayFrame
    /\ DrawAndLoad("key", wallpapers, thumbPaths, rendered, selected, scrollRow,
                   -1, ~showHelp, nextPage, loading, cols, cellH)
    /\ UNCHANGED << bgTasks >>

\* actionSetBg: go g.setWallpaperBg(g.selected)
HandleSetBg ==
    /\ KeyIs(actionSetBg)
    /\ BagCardinality(bgTasks) < MaxBg
    /\ StayFrame
    /\ bgTasks' = bgTasks (+) SetToBag({selected})
    /\ DrawAndLoad("key", wallpapers, thumbPaths, rendered, selected, scrollRow,
                   prevSelected, showHelp, nextPage, loading, cols, cellH)

\* actionQuit: clearScreen(); return "", nil
HandleQuit ==
    /\ KeyIs(actionQuit)
    /\ inputCh' = Tail(inputCh)
    /\ ReturnFrame("empty", << "clear" >>)
    /\ UNCHANGED << wallpapers, thumbPaths, rendered >>

\* LoopClosed that returns as soon as the channel is closed, with chunks
\* still waiting in it
LoopClosedDropQueued ==
    /\ pc = "loop"
    /\ stdin = "closed"
    /\ ReturnFrame("empty", << >>)
    /\ UNCHANGED << inputCh, wallpapers, thumbPaths, rendered >>

\* case key, ok := <-inputCh with !ok: the reader closed the channel
LoopClosed ==
    /\ pc = "loop"
    /\ inputCh = << >>
    /\ stdin = "closed"
    /\ ReturnFrame("empty", << >>)
    /\ UNCHANGED << inputCh, wallpapers, thumbPaths, rendered >>

\* HandleSelect that downloads before it leaves raw mode
HandleSelectDownloadRaw ==
    /\ KeyIs(actionSelect)
    /\ inputCh' = Tail(inputCh)
    /\ \/ /\ ~At(wallpapers, selected).local
          /\ ReturnFrame("error", << "clear", "downloadFailed", "restore", "showCursor" >>)
       \/ ReturnFrame("error", << "clear", "download", "restore", "showCursor", "setFailed" >>)
       \/ ReturnFrame("path", << "clear", "download", "restore", "showCursor", "set" >>)
    /\ UNCHANGED << wallpapers, thumbPaths, rendered >>

\* actionSelect: leave raw mode, download the full image, set it
HandleSelect ==
    /\ KeyIs(actionSelect)
    /\ inputCh' = Tail(inputCh)
    /\ \/ /\ ~At(wallpapers, selected).local
          /\ ReturnFrame("error", << "clear", "restore", "showCursor", "downloadFailed" >>)
       \/ ReturnFrame("error", << "clear", "restore", "showCursor", "download", "setFailed" >>)
       \/ ReturnFrame("path", << "clear", "restore", "showCursor", "download", "set" >>)
    /\ UNCHANGED << wallpapers, thumbPaths, rendered >>

\* rekeyCache that drops the deleted key and shifts nothing
rekeyNoShift(R, k) ==
    [i \in (DOMAIN R) \ {k} |-> R[i]]

\* rekeyCache that keeps only the entries before the deleted key
rekeyDropTail(R, k) ==
    [i \in {j \in DOMAIN R : j < k} |-> R[i]]

\* actionDelete: the re-keyed render cache
rekeyCache(R, k) ==
    [i \in {j \in DOMAIN R : j < k} \cup {j - 1 : j \in {x \in DOMAIN R : x > k}} |->
        IF i < k THEN R[i] ELSE R[i + 1]]

\* actionDelete: the selection after the item was removed
clampSelected(sel, n) ==
    IF sel >= n THEN n - 1 ELSE sel

\* actionDelete on an item whose Path is not absolute: break
HandleDeleteRemote ==
    /\ KeyIs(actionDelete)
    /\ ~At(wallpapers, selected).local
    /\ StayFrame
    /\ DrawAndLoad("delete", wallpapers, thumbPaths, rendered, selected, scrollRow,
                   prevSelected, showHelp, nextPage, loading, cols, cellH)
    /\ UNCHANGED << bgTasks >>

\* HandleDelete without the filepath.IsAbs test
HandleDeleteAnyPath ==
    /\ KeyIs(actionDelete)
    /\ Len(wallpapers) > 1
    /\ StayFrame
    /\ LET W == RemoveAt(wallpapers, selected)
           T == RemoveAt(thumbPaths, selected)
           sel == clampSelected(selected, Len(W))
       IN  DrawAndLoad("delete", W, T, rekeyCache(rendered, selected), sel,
                       ensureVisible(sel, scrollRow, cols, visibleRowsOf(termH, cellH)),
                       -1, showHelp, nextPage, loading, cols, cellH)
    /\ UNCHANGED bgTasks

\* actionDelete on a local item that is not the only one
HandleDelete ==
    /\ KeyIs(actionDelete)
    /\ At(wallpapers, selected).local
    /\ Len(wallpapers) > 1
    /\ StayFrame
    /\ LET W == RemoveAt(wallpapers, selected)
           T == RemoveAt(thumbPaths, selected)
           sel == clampSelected(selected, Len(W))
       IN  DrawAndLoad("delete", W, T, rekeyCache(rendered, selected), sel,
                       ensureVisible(sel, scrollRow, cols, visibleRowsOf(termH, cellH)),
                       -1, showHelp, nextPage, loading, cols, cellH)
    /\ UNCHANGED bgTasks

\* HandleDeleteLast without the len(g.wallpapers) == 0 return
HandleDeleteLastGoesOn ==
    /\ KeyIs(actionDelete)
    /\ At(wallpapers, selected).local
    /\ Len(wallpapers) = 1
    /\ StayFrame
    /\ LET sel == clampSelected(selected, 0)
       IN  DrawAndLoad("delete", RemoveAt(wallpapers, selected),
                       RemoveAt(thumbPaths, selected), rekeyCache(rendered, selected),
                       sel, ensureVisible(sel, scrollRow, cols, visibleRowsOf(termH, cellH)),
                       -1, showHelp, nextPage, loading, cols, cellH)
    /\ UNCHANGED bgTasks

\* actionDelete on the only item: os.Remove(wp.Path), then clearScreen();
\* return "", nil
HandleDeleteLast ==
    /\ KeyIs(actionDelete)
    /\ At(wallpapers, selected).local
    /\ Len(wallpapers) = 1
    /\ inputCh' = Tail(inputCh)
    /\ rendered' = rekeyCache(rendered, selected)
    /\ wallpapers' = RemoveAt(wallpapers, selected)
    /\ thumbPaths' = RemoveAt(thumbPaths, selected)
    /\ ReturnFrame("empty", << "remove", "clear" >>)

\* LoopLoad that starts from an empty g.rendered
LoopLoadClearCache ==
    /\ pc = "loop"
    /\ loadCh # << >>
    /\ pc' = pc
    /\ loadCh' = Tail(loadCh)
    /\ DrawAndLoad("load", wallpapers \o Head(loadCh).wallpapers,
                   thumbPaths \o Head(loadCh).thumbPaths,
                   EmptyCache, selected, scrollRow, prevSelected, showHelp,
                   Head(loadCh).nextPage, FALSE, cols, cellH)
    /\ UNCHANGED << envVars, layoutVars, termVars, exitVars, requested, inputCh,
                    stdin, bgTasks >>

\* LoopLoad that leaves g.loading as it is
LoopLoadKeepFlag ==
    /\ pc = "loop"
    /\ loadCh # << >>
    /\ pc' = pc
    /\ loadCh' = Tail(loadCh)
    /\ DrawAndLoad("load", wallpapers \o Head(loadCh).wallpapers,
                   thumbPaths \o Head(loadCh).thumbPaths,
                   rendered, selected, scrollRow, prevSelected, showHelp,
                   Head(loadCh).nextPage, loading, cols, cellH)
    /\ UNCHANGED << envVars, layoutVars, termVars, exitVars, requested, inputCh,
                    stdin, bgTasks >>

\* LoopLoad that puts the new page in front of the items
LoopLoadPrepend ==
    /\ pc = "loop"
    /\ loadCh # << >>
    /\ pc' = pc
    /\ loadCh' = Tail(loadCh)
    /\ DrawAndLoad("load", Head(loadCh).wallpapers \o wallpapers,
                   Head(loadCh).thumbPaths \o thumbPaths,
                   rendered, selected, scrollRow, prevSelected, showHelp,
                   Head(loadCh).nextPage, FALSE, cols, cellH)
    /\ UNCHANGED << envVars, layoutVars, termVars, exitVars, requested, inputCh,
                    stdin, bgTasks >>

\* case result := <-g.loadCh
LoopLoad ==
    /\ pc = "loop"
    /\ loadCh # << >>
    /\ pc' = pc
    /\ loadCh' = Tail(loadCh)
    /\ DrawAndLoad("load", wallpapers \o Head(loadCh).wallpapers,
                   thumbPaths \o Head(loadCh).thumbPaths,
                   rendered, selected, scrollRow, prevSelected, showHelp,
                   Head(loadCh).nextPage, FALSE, cols, cellH)
    /\ UNCHANGED << envVars, layoutVars, termVars, exitVars, requested, inputCh,
                    stdin, bgTasks >>

\* ------------------------------------------------- fetchNextPage goroutine
\* failResult that does not advance the page number
failResultSamePage(page) ==
    [wallpapers |-> << >>, thumbPaths |-> << >>, nextPage |-> page]

\* The message of a failed page
failResult(page) ==
    [wallpapers |-> << >>, thumbPaths |-> << >>, nextPage |-> page + 1]

\* The message of a page that answered n items
pageResult(page, n, e) ==
    LET ws == SeqOfIds(PageBase(page), n, e)
    IN  [wallpapers |-> ws,
         thumbPaths |-> [i \in 1..n |-> ThumbOf(ws[i], e)],
         nextPage |-> page + 1]

SetAt(s, i, v) ==
    [s EXCEPT ![i] = v]

\* DropAt that leaves the task in place once it has sent
DropAtNothing(s, i) ==
    s

DropAt(s, i) ==
    [j \in 1..(Len(s) - 1) |-> IF j < i THEN s[j] ELSE s[j + 1]]

\* page := g.nextPage; client.SearchPage(g.searchOpts, page) is called
FetchBegin ==
    /\ Alive
    /\ \E i \in 1..Len(fetchTasks) :
          /\ fetchTasks[i].st = "spawned"
          /\ fetchTasks' = SetAt(fetchTasks, i, [st |-> "fetching", page |-> nextPage])
          /\ requested' = Append(requested, nextPage)
    /\ lastDraw' = NoDraw
    /\ UNCHANGED << pc, envVars, layoutVars, termVars, exitVars, wallpapers,
                    thumbPaths, rendered, selected, scrollRow, prevSelected,
                    prevScrollRow, prevCount, showHelp, nextPage, loading,
                    loadCh, inputCh, stdin, bgTasks >>

\* FetchEnd that returns without a message when SearchPage failed
FetchEndSilentError ==
    /\ Alive
    /\ Len(loadCh) < loadChCap
    /\ \E i \in 1..Len(fetchTasks) :
          /\ fetchTasks[i].st = "fetching"
          /\ fetchTasks' = DropAt(fetchTasks, i)
          /\ \/ loadCh' = loadCh
             \/ \E n \in PageLens :
                   /\ PageBase(fetchTasks[i].page) + n - 1 <= env.last
                   /\ loadCh' = Append(loadCh, pageResult(fetchTasks[i].page, n, env))
    /\ lastDraw' = NoDraw
    /\ UNCHANGED << pc, envVars, layoutVars, termVars, exitVars, wallpapers,
                    thumbPaths, rendered, selected, scrollRow, prevSelected,
                    prevScrollRow, prevCount, showHelp, nextPage, loading,
                    requested, inputCh, stdin, bgTasks >>

\* SearchPage answered (an error, or a page whose thumbnails are then
\* downloaded) and the one message is sent on loadCh
FetchEnd ==
    /\ Alive
    /\ Len(loadCh) < loadChCap
    /\ \E i \in 1..Len(fetchTasks) :
          /\ fetchTasks[i].st = "fetching"
          /\ fetchTasks' = DropAt(fetchTasks, i)
          /\ \/ loadCh' = Append(loadCh, failResult(fetchTasks[i].page))
             \/ \E n \in PageLens :
                   /\ PageBase(fetchTasks[i].page) + n - 1 <= env.last
                   /\ loadCh' = Append(loadCh, pageResult(fetchTasks[i].page, n, env))
    /\ lastDraw' = NoDraw
    /\ UNCHANGED << pc, envVars, layoutVars, termVars, exitVars, wallpapers,
                    thumbPaths, rendered, selected, scrollRow, prevSelected,
                    prevScrollRow, prevCount, showHelp, nextPage, loading,
                    requested, inputCh, stdin, bgTasks >>

\* ------------------------------------------------ setWallpaperBg goroutine
\* wp := g.wallpapers[idx], then Download and Set; an index past the end of
\* the slice panics and the process dies with the terminal as it is
BgRun ==
    /\ Alive
    /\ \E idx \in BagToSet(bgTasks) :
          IF idx < Len(wallpapers)
          THEN /\ bgTasks' = bgTasks (-) SetToBag({idx})
               /\ UNCHANGED << pc, exitCode, inputCh, loadCh, fetchTasks, stdin >>
          ELSE /\ pc' = "crashed"
               /\ exitCode' = 2
               /\ ProcessGone
    /\ lastDraw' = NoDraw
    /\ UNCHANGED << envVars, layoutVars, termVars, wallpapers, thumbPaths, rendered,
                    selected, scrollRow, prevSelected, prevScrollRow, prevCount,
                    showHelp, nextPage, loading, tempDir, result, ops, requested >>

\* ---------------------------------------------------------- specification
Next ==
    \/ RunStart
    \/ RunRawFail
    \/ MainExit
    \/ ReaderPush
    \/ ReaderClose
    \/ HandleUp
    \/ HandleDown
    \/ HandleLeft
    \/ HandleRight
    \/ HandleNone
    \/ HandleOpen
    \/ HandleHelp
    \/ HandleSetBg
    \/ HandleQuit
    \/ HandleSelect
    \/ HandleDeleteRemote
    \/ HandleDelete
    \/ HandleDeleteLast
    \/ LoopClosed
    \/ LoopLoad
    \/ FetchBegin
    \/ FetchEnd
    \/ BgRun

Spec ==
    Init /\ [][Next]_vars

\* ------------------------------------------- ensureVisible on its own
\* Terminal heights of the grids ensureVisible is called on (cellH is
\* minCellHeight: one, two and three visible rows).
Heights ==
    {6, 12, 18}

\* The fields of a grid that the single-method specifications leave at the
\* values NewGrid gives them.
RestOfGrid ==
    /\ env \in Environments
    /\ wallpapers = << >> /\ thumbPaths = << >> /\ rendered = EmptyCache
    /\ prevSelected = -1 /\ prevCount = 0
    /\ showHelp = FALSE
    /\ nextPage = 2 /\ lastPage = 1 /\ loading = FALSE
    /\ loadCh = << >> /\ fetchTasks = << >> /\ requested = << >>
    /\ inputCh = << >> /\ stdin = "off" /\ bgTasks = EmptyBag
    /\ rawMode = FALSE /\ cursorHidden = FALSE
    /\ tempDir = TRUE /\ result = "none" /\ exitCode = -1
    /\ ops = << >> /\ lastDraw = NoDraw

\* Any grid with selected, scrollRow >= 0, cols >= 1 and visibleRows >= 1;
\* prevScrollRow remembers the scrollRow before the first call.
InitEnsureVisible ==
    /\ pc = "ev0"
    /\ selected \in 0..MaxIndex
    /\ scrollRow \in 0..MaxScroll
    /\ prevScrollRow = scrollRow
    /\ cols \in 1..MaxCols
    /\ termW = cols * minCellWidth
    /\ termH \in Heights
    /\ cellW = minCellWidth
    /\ cellH = minCellHeight
    /\ RestOfGrid

\* g.ensureVisible() is called (a first and a second time)
CallEnsureVisible ==
    /\ pc \in {"ev0", "ev1"}
    /\ pc' = IF pc = "ev0" THEN "ev1" ELSE "ev2"
    /\ scrollRow' = ensureVisible(selected, scrollRow, cols, visibleRowsOf(termH, cellH))
    /\ UNCHANGED << envVars, layoutVars, termVars, exitVars, wallpapers, thumbPaths,
                    rendered, selected, prevSelected, prevScrollRow, prevCount,
                    showHelp, nextPage, loading, fetchTasks, loadCh, requested,
                    inputCh, stdin, bgTasks, lastDraw >>

SpecEnsureVisible ==
    InitEnsureVisible /\ [][CallEnsureVisible]_vars

\* -------------------------------------------------- layout on its own
\* A new grid on a terminal of any width up to MaxWidth.
InitLayout ==
    /\ pc = "layout0"
    /\ termW \in 0..MaxWidth
    /\ termH \in Heights
    /\ selected = 0 /\ scrollRow = 0 /\ prevScrollRow = 0
    /\ cols = 0 /\ cellW = 0 /\ cellH = 0
    /\ RestOfGrid

\* g.layout() is called
CallLayout ==
    /\ pc = "layout0"
    /\ pc' = "layout1"
    /\ cols' = layoutCols(termW)
    /\ cellW' = layoutCellW(termW)
    /\ cellH' = layoutCellH(termW)
    /\ UNCHANGED << envVars, termVars, exitVars, gridVars, loadCh, requested,
                    inputCh, stdin, bgTasks, lastDraw >>

SpecLayout ==
    InitLayout /\ [][CallLayout]_vars

\* ------------------------------------------- the move keys on a full page
\* A terminal 100 columns wide and one grid row high: 5 columns.
MoveTermSizes ==
    {<<100, 6>>}

\* A first page of 23 results.
MoveLens ==
    {23}

\* The chunks of the move keys: k, j, h, l and the four arrow sequences.
MoveChunks ==
    { <<107>>, <<106>>, <<104>>, <<108>>,
      <<27, 91, 65>>, <<27, 91, 66>>, <<27, 91, 67>>, <<27, 91, 68>> }

\* The fields NewGrid sets whatever the first page is.
NewGridRest ==
    /\ thumbPaths = [i \in 1..Len(wallpapers) |-> 0]
    /\ rendered = EmptyCache
    /\ selected = 0 /\ scrollRow = 0
    /\ cols = 0 /\ cellW = 0 /\ cellH = 0
    /\ prevSelected = -1 /\ prevScrollRow = 0 /\ prevCount = 0
    /\ showHelp = FALSE
    /\ nextPage = 2
    /\ loading = FALSE
    /\ loadCh = << >>
    /\ fetchTasks = << >>
    /\ requested = << >>
    /\ inputCh = << >>
    /\ stdin = "off"
    /\ bgTasks = EmptyBag
    /\ rawMode = FALSE /\ cursorHidden = FALSE
    /\ tempDir = TRUE
    /\ result = "none"
    /\ exitCode = -1
    /\ ops = << >>
    /\ lastDraw = NoDraw

\* NewGrid on a one-page search: 23 results, no later page.
InitMoves ==
    /\ pc = "created"
    /\ \E sz \in MoveTermSizes : termW = sz[1] /\ termH = sz[2]
    /\ env \in Environments
    /\ \E n \in MoveLens : wallpapers = SeqOfIds(1, n, env)
    /\ lastPage = 1
    /\ NewGridRest

\* The reader goroutine sends one of the chunks the user types.
ReaderPushFrom(chunks) ==
    /\ pc = "loop"
    /\ stdin = "reading"
    /\ Len(inputCh) < inputChCap
    /\ Len(inputCh) < MaxPending
    /\ \E chunk \in chunks : inputCh' = Append(inputCh, chunk)
    /\ lastDraw' = NoDraw
    /\ UNCHANGED << pc, envVars, layoutVars, termVars, gridVars, exitVars, loadCh,
                    requested, stdin, bgTasks >>

\* The user types move keys only.
ReaderPushMove ==
    ReaderPushFrom(MoveChunks)

NextMoves ==
    \/ RunStart
    \/ ReaderPushMove
    \/ HandleUp
    \/ HandleDown
    \/ HandleLeft
    \/ HandleRight

SpecMoves ==
    InitMoves /\ [][NextMoves]_vars

\* --------------------------------------------- paging through a catalog
\* A terminal one column wide and two grid rows high.
PagesTermSizes ==
    {<<20, 12>>}

\* Lengths of the first page.
PagesFirstLens ==
    {1, 2}

\* The lastPage the catalog reports: a one-page search, a four-page search.
PagesLastPages ==
    {1, 4}

\* A catalog of remote items whose pages 2 and 3 can answer an item.
PagesEnvironments ==
    { [last |-> 4, local |-> {}, badImages |-> {1}, failThumbs |-> {3}] }

\* The chunks of j (down) and k (up).
ScrollChunks ==
    { <<106>>, <<107>> }

\* NewGrid on the first page of a search of several pages.
InitPages ==
    /\ pc = "created"
    /\ \E sz \in PagesTermSizes : termW = sz[1] /\ termH = sz[2]
    /\ env \in PagesEnvironments
    /\ \E n \in PagesFirstLens : wallpapers = SeqOfIds(1, n, env)
    /\ lastPage \in PagesLastPages
    /\ NewGridRest

\* The user types j and k only.
ReaderPushScroll ==
    ReaderPushFrom(ScrollChunks)

NextPages ==
    \/ RunStart
    \/ ReaderPushScroll
    \/ HandleUp
    \/ HandleDown
    \/ LoopLoad
    \/ FetchBegin
    \/ FetchEnd

SpecPages ==
    InitPages /\ [][NextPages]_vars

\* The Go scheduler runs every goroutine that can run, and a select whose
\* loadCh case stays ready takes it in the end.
FairSpecPages ==
    /\ SpecPages
    /\ WF_vars(FetchBegin)
    /\ WF_vars(FetchEnd)
    /\ WF_vars(LoopLoad)

\* ------------------------------------------------- the end of the input
\* The paged grid with a reader whose Read can fail at any time.
NextClose ==
    \/ RunStart
    \/ ReaderPushScroll
    \/ ReaderClose
    \/ HandleUp
    \/ HandleDown
    \/ LoopLoad
    \/ FetchBegin
    \/ FetchEnd
    \/ LoopClosed

SpecClose ==
    InitPages /\ [][NextClose]_vars

\* A select whose inputCh case stays ready takes it in the end: a closed
\* channel is ready for ever, and a chunk waits until the loop takes it.
FairSpecClose ==
    /\ SpecClose
    /\ WF_vars(HandleUp)
    /\ WF_vars(HandleDown)
    /\ WF_vars(LoopClosed)

\* ------------------------------------------------- typing ahead of the loop
\* The chunks of k, j, h, l and q.
TypingChunks ==
    { <<107>>, <<106>>, <<104>>, <<108>>, <<113>> }

\* ReaderPushQueued that puts the chunk in front of the waiting ones
ReaderPushQueuedFront(chunks) ==
    /\ pc = "loop"
    /\ stdin = "reading"
    /\ Len(inputCh) < inputChCap
    /\ Len(inputCh) < MaxQueued
    /\ \E chunk \in chunks : inputCh' = << chunk >> \o inputCh
    /\ lastDraw' = NoDraw
    /\ UNCHANGED << pc, envVars, layoutVars, termVars, gridVars, exitVars, loadCh,
                    requested, stdin, bgTasks >>

\* The reader goroutine sends a chunk while earlier chunks still wait in
\* inputCh (the send blocks when the channel is full).
ReaderPushQueued(chunks) ==
    /\ pc = "loop"
    /\ stdin = "reading"
    /\ Len(inputCh) < inputChCap
    /\ Len(inputCh) < MaxQueued
    /\ \E chunk \in chunks : inputCh' = Append(inputCh, chunk)
    /\ lastDraw' = NoDraw
    /\ UNCHANGED << pc, envVars, layoutVars, termVars, gridVars, exitVars, loadCh,
                    requested, stdin, bgTasks >>

\* The user types move keys and q faster than the loop handles them.
ReaderPushTyping ==
    ReaderPushQueued(TypingChunks)

NextTyping ==
    \/ RunStart
    \/ ReaderPushTyping
    \/ HandleUp
    \/ HandleDown
    \/ HandleLeft
    \/ HandleRight
    \/ HandleQuit

\* A one-page search of 23 results, typed ahead.
SpecTyping ==
    InitMoves /\ [][NextTyping]_vars

\* ------------------------------------------------- parseKey on any chunk
\* The bytes of the chunks: Ctrl-C, LF, CR, ESC, ?, A B C D E, [, d h j k
\* l o q s, x.
KeyBytes ==
    {3, 10, 13, 27, 63, 65, 66, 67, 68, 69, 91, 100, 104, 106, 107, 108, 111,
     113, 115, 120}

\* Every chunk of at most MaxChunkLen of these bytes, the empty one included.
ParseChunks ==
    UNION {[1..n -> KeyBytes] : n \in 0..MaxChunkLen}

\* NewGrid on a one-page search.
InitParse ==
    /\ pc = "created"
    /\ \E sz \in TermSizes : termW = sz[1] /\ termH = sz[2]
    /\ env \in Environments
    /\ \E n \in FirstLens : wallpapers = SeqOfIds(1, n, env)
    /\ lastPage = 1
    /\ NewGridRest

\* The reader goroutine sends any chunk, once the loop has taken the one
\* before.
ReaderPushParse ==
    /\ pc = "loop"
    /\ stdin = "reading"
    /\ inputCh = << >>
    /\ \E chunk \in ParseChunks : inputCh' = Append(inputCh, chunk)
    /\ lastDraw' = NoDraw
    /\ UNCHANGED << pc, envVars, layoutVars, termVars, gridVars, exitVars, loadCh,
                    requested, stdin, bgTasks >>

NextParse ==
    \/ RunStart
    \/ ReaderPushParse
    \/ HandleNone

SpecParse ==
    InitParse /\ [][NextParse]_vars

\* ------------------------------------------------------------------ claims
VisibleRows ==
    visibleRowsOf(termH, cellH)

\* The loop takes the inputCh case of the select with a chunk that parses to
\* action a, and stays in the loop.
KeyStep(a) ==
    /\ pc = "loop"
    /\ pc' = "loop"
    /\ inputCh # << >>
    /\ parseKey(Head(inputCh)) = a
    /\ inputCh' = Tail(inputCh)
    /\ lastDraw'.ev # "-"

\* Where a move action asks the selection to go.
MoveTarget(a) ==
    CASE a = actionUp -> selected - cols
      [] a = actionDown -> selected + cols
      [] a = actionLeft -> selected - 1
      [] a = actionRight -> selected + 1

\* C1: whenever items is non-empty, 0 <= selectedIndex < len(items); and a
\* move step leaves the selection where it was or puts it on the cell asked
\* for, and leaves it where it was when that cell does not exist.
C1_SelectedInRange ==
    /\ [](Len(wallpapers) > 0 => (selected >= 0 /\ selected < Len(wallpapers)))
    /\ [][\A a \in {actionUp, actionDown, actionLeft, actionRight} :
            KeyStep(a) =>
                /\ selected' \in {selected, MoveTarget(a)}
                /\ (MoveTarget(a) < 0 \/ MoveTarget(a) >= Len(wallpapers))
                       => selected' = selected]_vars

\* C1 witness: a move on the last cell of a grid of several items was
\* handled and the selection stayed where it was.
C1_Witness ==
    /\ pc = "loop"
    /\ lastDraw.ev = "move"
    /\ Len(wallpapers) >= 2
    /\ selected = Len(wallpapers) - 1
    /\ lastDraw.pSel = selected

C3_OneFetchInFlight ==
    Len(fetchTasks) + Len(loadCh) <= 1

\* C3 witness: a key was handled (so maybeLoadMore ran again) while a fetch
\* whose page is still wanted was in flight.
C3_Witness ==
    /\ pc = "loop"
    /\ lastDraw.ev = "move"
    /\ Len(fetchTasks) = 1
    /\ fetchTasks[1].st = "fetching"
    /\ nextPage <= lastPage

NoDup(q) ==
    \A i, j \in 1..Len(q) : i # j => q[i] # q[j]

\* The loop consumes the message waiting in loadCh.
ConsumeStep ==
    /\ pc = "loop"
    /\ pc' = "loop"
    /\ Len(loadCh) = 1
    /\ loadCh' = << >>

\* C4: a message without items (a failed page p) carries nextPage = p + 1;
\* consuming it sets nextPage to that, leaves items and thumbnailPaths as they
\* were and clears the in-flight flag (it is set again only by a fetch that
\* the same iteration starts); and no page number is requested twice.
C4_FailedPageSkipped ==
    /\ [](NoDup(requested))
    /\ [](\A i \in 1..Len(loadCh) :
            Len(requested) > 0 /\ loadCh[i].nextPage = requested[Len(requested)] + 1)
    /\ [][(ConsumeStep /\ Len(loadCh[1].wallpapers) = 0)
          => /\ nextPage' = requested[Len(requested)] + 1
             /\ wallpapers' = wallpapers
             /\ thumbPaths' = thumbPaths
             /\ loading' = (Len(fetchTasks') > Len(fetchTasks))]_vars

\* C4 witness: page 2 was requested and failed, and its message has just
\* been consumed: the count did not change and nextPage is 3.
C4_Witness ==
    /\ pc = "loop"
    /\ lastDraw.ev = "load"
    /\ lastDraw.pCnt = Len(wallpapers)
    /\ requested = << 2 >>
    /\ nextPage = 3
    /\ ~loading

\* C5: thumbnailPaths and renderCache stay aligned with items: the two
\* slices have one length, every cache key is an index of items, the
\* thumbnail at i is the one of the item at i (or empty), and the text cached
\* at i was rendered from the thumbnail of the item at i.
C5_CacheAligned ==
    /\ Len(thumbPaths) = Len(wallpapers)
    /\ \A i \in DOMAIN rendered : i >= 0 /\ i < Len(wallpapers)
    /\ \A i \in 0..(Len(wallpapers) - 1) :
          At(thumbPaths, i) \in {0, At(wallpapers, i).id}
    /\ \A i \in DOMAIN rendered :
          /\ At(thumbPaths, i) # 0
          /\ rendered[i].kind = "image" => rendered[i].src = At(wallpapers, i).id
          /\ rendered[i].kind = "placeholder" => At(thumbPaths, i) \in env.badImages

\* C5 witness: an item was deleted while a fetch was in flight, and the cache
\* holds the image of an item that now sits at a lower index than before.
C5_Witness ==
    /\ pc = "loop"
    /\ lastDraw.ev = "delete"
    /\ loading
    /\ \E i \in DOMAIN rendered :
          rendered[i].kind = "image" /\ rendered[i].src > i + 1

\* C6: a deletion at index k keeps every cache entry below k under its key,
\* moves every entry above k to the key one lower with its text, and carries
\* nothing else over: any other entry of the cache after the iteration was
\* rendered by the repaint that follows, for the item now at that index.
C6_RekeyOnDelete ==
    [][(pc = "loop" /\ Len(wallpapers') = Len(wallpapers) - 1)
       => /\ \A i \in DOMAIN rendered :
               /\ i < selected => (i \in DOMAIN rendered' /\ rendered'[i] = rendered[i])
               /\ i > selected =>
                      ((i - 1) \in DOMAIN rendered' /\ rendered'[i - 1] = rendered[i])
          /\ \A j \in DOMAIN rendered' :
               \/ j < selected /\ j \in DOMAIN rendered
               \/ j >= selected /\ (j + 1) \in DOMAIN rendered
               \/ /\ j \in lastDraw'.cells
                  /\ rendered'[j] = RenderText(At(thumbPaths', j), env)]_vars

\* C6 witness: a deletion was handled and the cache holds, for a cell the
\* repaint did not write, the image of an item that moved down by one.
C6_Witness ==
    /\ pc = "loop"
    /\ lastDraw.ev = "delete"
    /\ \E i \in DOMAIN rendered :
          /\ i \notin lastDraw.cells
          /\ rendered[i].kind = "image"
          /\ rendered[i].src > i + 1

\* The cells of the rows on screen.
VisibleCells ==
    {i \in 0..(Len(wallpapers) - 1) :
        i \div cols >= scrollRow /\ i \div cols < scrollRow + VisibleRows}

\* What draw() must have written, going by prevSelected, prevScrollRow and
\* prevCount against selected, scrollRow and the item count alone.
ByTheThree ==
    LET d == lastDraw
        full == d.pSel < 0 \/ scrollRow # d.pScr \/ Len(wallpapers) # d.pCnt
    IN  IF full THEN d.clear /\ d.cells = VisibleCells /\ ~d.overlay
        ELSE IF selected # d.pSel
             THEN ~d.clear /\ d.cells = {d.pSel, selected} /\ ~d.overlay
        ELSE ~d.clear /\ d.cells = {} /\ ~d.overlay

\* C7 as stated: every draw is a full repaint, an incremental repaint or
\* nothing, decided by the three remembered values against the current ones.
C7_AsStated ==
    lastDraw.ev # "-" => ByTheThree

\* C7: while the help overlay is not shown, draw() writes a full repaint when
\* prevSelected is unset (first draw, or reset by the handler) or scrollRow
\* or the item count changed, the two cells of an incremental repaint when
\* only selectedIndex changed, and nothing otherwise; while the overlay is
\* shown every draw writes the screen clear and the overlay and no cell.
C7_RedrawClassified ==
    lastDraw.ev # "-" =>
        IF showHelp
        THEN lastDraw.clear /\ lastDraw.overlay /\ lastDraw.cells = {}
        ELSE ByTheThree

\* C7 witness: with the grid on screen a key that changes none of the three
\* values was handled and the draw wrote nothing.
C7_Witness ==
    /\ pc = "loop"
    /\ ~showHelp
    /\ lastDraw.ev \in {"move", "key"}
    /\ lastDraw.pSel = selected
    /\ ~lastDraw.clear
    /\ lastDraw.cells = {}

\* Only selectedIndex changed since the last draw.
OnlySelectionChanged ==
    /\ lastDraw.ev # "-"
    /\ lastDraw.pSel >= 0
    /\ lastDraw.pSel # selected
    /\ lastDraw.pScr = scrollRow
    /\ lastDraw.pCnt = Len(wallpapers)

\* C8 as stated: when only selectedIndex changed the draw writes no screen
\* clear and exactly the old and the new selected cell.
C8_AsStated ==
    OnlySelectionChanged =>
        /\ ~lastDraw.clear
        /\ lastDraw.cells = {lastDraw.pSel, selected}

\* C8: when only selectedIndex changed and the help overlay is not shown,
\* the draw writes no screen clear and exactly the old and the new selected
\* cell.
C8_TwoCellRepaint ==
    (OnlySelectionChanged /\ ~showHelp) =>
        /\ ~lastDraw.clear
        /\ ~lastDraw.overlay
        /\ lastDraw.cells = {lastDraw.pSel, selected}
        /\ Cardinality(lastDraw.cells) = 2

\* C8 witness: a move within the rows on screen repainted two cells.
C8_Witness ==
    /\ pc = "loop"
    /\ ~showHelp
    /\ OnlySelectionChanged
    /\ lastDraw.ev = "move"
    /\ Cardinality(lastDraw.cells) = 2

\* C9 as stated: the draw that follows a consumed page-load message is a
\* full repaint, whatever the message.
C9_AsStated ==
    lastDraw.ev = "load" => (lastDraw.clear /\ lastDraw.cells = VisibleCells)

\* C9: while the help overlay is not shown, the draw that follows a consumed
\* page-load message is a full repaint when the message appended an item, and
\* writes nothing when it carried none (a failed fetch, an empty page).
C9_LoadRepaints ==
    (lastDraw.ev = "load" /\ ~showHelp) =>
        IF Len(wallpapers) # lastDraw.pCnt
        THEN lastDraw.clear /\ ~lastDraw.overlay /\ lastDraw.cells = VisibleCells
        ELSE ~lastDraw.clear /\ lastDraw.cells = {}

\* C9 witness: a page with an item was consumed and the grid was repainted
\* in full.
C9_Witness ==
    /\ pc = "loop"
    /\ ~showHelp
    /\ lastDraw.ev = "load"
    /\ Len(wallpapers) = lastDraw.pCnt + 1
    /\ lastDraw.clear
    /\ lastDraw.cells # {}

\* C10 as stated: once the process has ended, the thumbnail directory is
\* gone, whichever way Run returned.
C10_AsStated ==
    pc = "exited" => ~tempDir

\* C11: raw mode and the hidden cursor are held from Run's set-up for as long
\* as the loop runs and not before, and once Run has returned (whichever
\* return it took) the terminal is in its original mode with the cursor
\* shown.
C11_TerminalRestored ==
    /\ pc = "created" => (~rawMode /\ ~cursorHidden)
    /\ pc = "loop" => (rawMode /\ cursorHidden)
    /\ pc \in {"returned", "exited"} => (~rawMode /\ ~cursorHidden)

\* C11 witness: Run returned an error from a confirm whose download failed,
\* after the terminal had been put in raw mode.
C11_Witness ==
    /\ pc = "returned"
    /\ result = "error"
    /\ Len(ops) > 0
    /\ ops[Len(ops)] = "downloadFailed"
    /\ ~rawMode
    /\ ~cursorHidden

\* A fetchNextPage goroutine that has not yet read g.nextPage.
FetchReadPending ==
    \E i \in 1..Len(fetchTasks) : fetchTasks[i].st = "spawned"

\* C12 as stated: no step of the loop changes a field of the grid that a
\* background goroutine has still to read: g.nextPage while a fetch task has
\* not read it, g.wallpapers while a setWallpaperBg task has not read it.
C12_AsStated ==
    [][/\ FetchReadPending => nextPage' = nextPage
       /\ bgTasks # EmptyBag => wallpapers' = wallpapers]_vars

\* The grid state a move and a page load can change.
GridNow ==
    [wallpapers |-> wallpapers, thumbPaths |-> thumbPaths, selected |-> selected,
     scrollRow |-> scrollRow, nextPage |-> nextPage]

MoveActions ==
    {actionUp, actionDown, actionLeft, actionRight}

\* The grid state after the handler of move action a ran on g.
AfterMove(a, g) ==
    LET n == Len(g.wallpapers)
        sel == CASE a = actionUp -> moveUp(g.selected, cols, n)
                 [] a = actionDown -> moveDown(g.selected, cols, n)
                 [] a = actionLeft -> moveLeft(g.selected, cols, n)
                 [] a = actionRight -> moveRight(g.selected, cols, n)
    IN  [g EXCEPT !.selected = sel,
                  !.scrollRow = IF sel # g.selected
                                THEN ensureVisible(sel, g.scrollRow, cols, VisibleRows)
                                ELSE g.scrollRow]

\* The grid state after the loop consumed message m on g.
AfterLoad(m, g) ==
    [g EXCEPT !.wallpapers = g.wallpapers \o m.wallpapers,
              !.thumbPaths = g.thumbPaths \o m.thumbPaths,
              !.nextPage = m.nextPage]

\* A move chunk heads inputCh and a message waits in loadCh: the select may
\* take either case first.
MoveAndLoadReady(a) ==
    /\ pc = "loop"
    /\ inputCh # << >>
    /\ parseKey(Head(inputCh)) = a
    /\ loadCh # << >>

Commutes(a) ==
    AfterLoad(Head(loadCh), AfterMove(a, GridNow))
        = AfterMove(a, AfterLoad(Head(loadCh), GridNow))

\* Move a is a down or right move whose target cell does not exist now and
\* exists once the waiting message is appended.
TargetArrives(a) ==
    LET t == IF a = actionDown THEN selected + cols ELSE selected + 1
    IN  /\ a \in {actionDown, actionRight}
        /\ t >= Len(wallpapers)
        /\ t < Len(wallpapers) + Len(Head(loadCh).wallpapers)

\* C13 as stated: whenever a move and a page-load completion are both
\* ready, handling them in either order gives the same items, thumbnail
\* paths, selection, scrollRow and nextPage.
C13_AsStated ==
    \A a \in MoveActions : MoveAndLoadReady(a) => Commutes(a)

\* C13: a move and a page-load completion that are both ready commute,
\* except when the move is a down or right move whose target cell only
\* exists once the page is appended: handled first that move is a no-op,
\* handled second it moves the selection.  (The loop's move and load steps
\* are the ones AfterMove and AfterLoad compute.)
C13_MoveLoadCommute ==
    /\ [](\A a \in MoveActions :
            MoveAndLoadReady(a) => (Commutes(a) <=> ~TargetArrives(a)))
    /\ [][\A a \in MoveActions : KeyStep(a) => GridNow' = AfterMove(a, GridNow)]_vars
    /\ [][ConsumeStep => GridNow' = AfterLoad(Head(loadCh), GridNow)]_vars

\* C13 witness: a left move that will change the selection and a page with
\* an item are both ready.
C13_Witness ==
    /\ MoveAndLoadReady(actionLeft)
    /\ selected > 0
    /\ Len(Head(loadCh).wallpapers) > 0
    /\ Commutes(actionLeft)

\* The position of x in q, 0 when it is not there.
Pos(x, q) ==
    IF \E i \in 1..Len(q) : q[i] = x
    THEN CHOOSE i \in 1..Len(q) : q[i] = x
    ELSE 0

\* The loop handles a confirm chunk and Run returns.
ConfirmStep ==
    /\ pc = "loop"
    /\ inputCh # << >>
    /\ parseKey(Head(inputCh)) = actionSelect
    /\ inputCh' = Tail(inputCh)
    /\ pc' = "returned"

\* C14: a confirm restores the terminal, then issues the download, then (only
\* when the download succeeded) the apply, and returns the path only after
\* the apply succeeded; nothing is downloaded before the restore and nothing
\* is applied before a successful download.
C14_ConfirmOrder ==
    [][ConfirmStep =>
         LET q == ops'
             dl == Pos("download", q) + Pos("downloadFailed", q)
             ap == Pos("set", q) + Pos("setFailed", q)
         IN  /\ Pos("restore", q) > 0
             /\ ~rawMode'
             /\ dl > Pos("restore", q)
             /\ ap > 0 => (Pos("download", q) > 0 /\ ap > Pos("download", q))
             /\ result' = "path" <=> Pos("set", q) > 0
             /\ result' = "path" => Pos("set", q) = Len(q)]_vars

\* C14 witness: a confirm went through: terminal restored, image downloaded
\* and applied, path returned.
C14_Witness ==
    /\ pc = "returned"
    /\ result = "path"
    /\ ops = << "clear", "restore", "showCursor", "download", "set" >>
    /\ ~rawMode

\* C15: Run returns an error exactly when the confirm's download failed, the
\* confirm's apply failed, or raw mode could not be entered (nothing else ran
\* then); after a failed download no apply is issued; and the process that
\* ends after an error return ends with a non-zero status, after any other
\* return with status zero.
C15_ErrorReturns ==
    /\ pc \in {"returned", "exited"} =>
          /\ result = "error" <=>
                \/ Pos("downloadFailed", ops) > 0
                \/ Pos("setFailed", ops) > 0
                \/ (ops = << >> /\ cols = 0)
          /\ Pos("downloadFailed", ops) > 0 =>
                (Pos("set", ops) = 0 /\ Pos("setFailed", ops) = 0)
    /\ pc = "exited" => (result = "error" <=> exitCode # 0)

\* C15 witness: the apply of a confirm failed and the process ended with a
\* non-zero status.
C15_Witness ==
    /\ pc = "exited"
    /\ result = "error"
    /\ Pos("setFailed", ops) > 0
    /\ exitCode = 1

\* C16 as stated: once a quit has been handled (the screen clear is all the
\* returning handler did) Run's result is empty, and the process that ends
\* after it ends with status zero.
C16_AsStated ==
    (ops = << "clear" >> /\ pc \in {"returned", "exited", "crashed"}) =>
        /\ result = "empty"
        /\ pc # "returned" => exitCode = 0

\* C17: a delete handled on an item whose path is not a local absolute path
\* leaves items, thumbnailPaths, renderCache, selectedIndex and scrollRow as
\* they were; and no step takes an item that is not local out of items.
C17_RemoteNeverDeleted ==
    /\ [][(KeyStep(actionDelete) /\ ~At(wallpapers, selected).local) =>
             UNCHANGED << wallpapers, thumbPaths, rendered, selected, scrollRow >>]_vars
    /\ [][\A i \in 1..Len(wallpapers) :
             ~wallpapers[i].local =>
                 \E j \in 1..Len(wallpapers') : wallpapers'[j] = wallpapers[i]]_vars

\* C17 witness: a delete was handled with the selection on a remote item,
\* which is still there.
C17_Witness ==
    /\ pc = "loop"
    /\ lastDraw.ev = "delete"
    /\ lastDraw.pCnt = Len(wallpapers)
    /\ lastDraw.pSel = selected
    /\ ~At(wallpapers, selected).local

\* C18: the loop never runs with an empty items sequence: items is empty only
\* after the delete of the only item, which removed the file, cleared the
\* screen and made Run return an empty result and no error, without a draw.
C18_EmptyGridEnds ==
    /\ pc = "loop" => Len(wallpapers) > 0
    /\ Len(wallpapers) = 0 =>
          /\ pc \in {"returned", "exited", "crashed"}
          /\ result = "empty"
          /\ ops = << "remove", "clear" >>
          /\ lastDraw = NoDraw

\* C18 witness: the only item was deleted and Run has returned.
C18_Witness ==
    /\ pc = "returned"
    /\ Len(wallpapers) = 0
    /\ result = "empty"

\* C19: ensureVisible is idempotent: the second of two calls in a row leaves
\* scrollRow where the first call put it.
C19_EnsureVisibleIdempotent ==
    [][pc = "ev1" => scrollRow' = scrollRow]_vars

\* C19 witness: ensureVisible was called twice on a grid whose selected row
\* was off screen, so the first call moved scrollRow.
C19_Witness ==
    /\ pc = "ev2"
    /\ scrollRow # prevScrollRow
    /\ selected \div cols >= scrollRow
    /\ selected \div cols < scrollRow + VisibleRows

\* q is floor(a / b), for b > 0.
IsFloorDiv(q, a, b) ==
    q * b <= a /\ a < (q + 1) * b

\* C20: after layout() on a terminal of width W, cols is max(1, floor(W/20)),
\* cellW is floor(W / cols) and cellH is max(minCellHeight,
\* floor(cellW * 9 / 32)); W = 100 gives 5 columns of width 20 and height 5.
C20_LayoutNumbers ==
    pc = "layout1" =>
        /\ \E q \in 0..termW :
              IsFloorDiv(q, termW, 20) /\ cols = (IF q < 1 THEN 1 ELSE q)
        /\ IsFloorDiv(cellW, termW, cols)
        /\ \E f \in 0..termW :
              /\ IsFloorDiv(f, cellW * 9, 32)
              /\ cellH = (IF f < minCellHeight THEN minCellHeight ELSE f)
        /\ termW = 100 => (cols = 5 /\ cellW = 20 /\ cellH = 5)

\* C20 witness: layout ran on a terminal 100 columns wide.
C20_Witness ==
    /\ pc = "layout1"
    /\ termW = 100
    /\ cols = 5

\* C21: a down move changes nothing exactly when selectedIndex + columns >=
\* len(items) and otherwise adds columns to selectedIndex; an up move changes
\* nothing exactly when selectedIndex < columns and otherwise subtracts
\* columns; with 23 items in 5 columns, down at index 22 changes nothing.
C21_UpDownMoves ==
    [][/\ KeyStep(actionDown) =>
            IF selected + cols >= Len(wallpapers)
            THEN GridNow' = GridNow
            ELSE selected' = selected + cols
       /\ KeyStep(actionUp) =>
            IF selected < cols
            THEN GridNow' = GridNow
            ELSE selected' = selected - cols
       /\ (KeyStep(actionDown) /\ Len(wallpapers) = 23 /\ cols = 5 /\ selected = 22)
             => GridNow' = GridNow]_vars

\* C21 witness: with 23 items in 5 columns a move key was handled with the
\* selection on index 22 (where down has no cell to go to) and the selection
\* is still there.
C21_Witness ==
    /\ pc = "loop"
    /\ Len(wallpapers) = 23
    /\ cols = 5
    /\ lastDraw.ev = "move"
    /\ lastDraw.pSel = 22
    /\ selected = 22
    /\ scrollRow = 4

\* C22 as stated: every move that changes selectedIndex moves the selected
\* cell by one row in the same column (up, down) or by one column in the same
\* row (left, right).
C22_AsStated ==
    [][\A a \in MoveActions :
          (KeyStep(a) /\ selected' # selected) =>
              IF a \in {actionUp, actionDown}
              THEN /\ selected' % cols = selected % cols
                   /\ (selected' \div cols) - (selected \div cols) \in {-1, 1}
              ELSE /\ selected' \div cols = selected \div cols
                   /\ (selected' % cols) - (selected % cols) \in {-1, 1}]_vars

\* q is ceil(a / b), for b > 0.
IsCeilDiv(q, a, b) ==
    (q - 1) * b < a /\ a <= q * b

\* A step that ends with draw() and maybeLoadMore(): Run's set-up or one
\* iteration of the loop.
DrewStep ==
    lastDraw'.ev # "-"

\* maybeLoadMore started a fetch in this step.
FetchStarted ==
    fetchTasks' # fetchTasks

\* g.loading as maybeLoadMore finds it: the loadCh case has cleared it.
FlagAtLoadMore ==
    loading /\ ~ConsumeStep

FetchesStarted ==
    Len(requested) + Cardinality({i \in 1..Len(fetchTasks) : fetchTasks[i].st = "spawned"})

\* maybeLoadMore finds a fetch in flight or no page left.
LoadMoreBlocked ==
    FlagAtLoadMore \/ nextPage' > lastPage

\* C24: no fetch is started for a page number greater than lastPage, at most
\* lastPage - 1 fetches are started in a session, and maybeLoadMore called
\* while a fetch is in flight or with nextPage > lastPage starts nothing and
\* leaves the in-flight flag as it found it: an iteration whose handler and
\* draw change nothing (an up move in the first row) then leaves every field
\* of the grid as it was.
C24_SchedulerNoOp ==
    /\ [](\A i \in 1..Len(requested) : requested[i] >= 2 /\ requested[i] <= lastPage)
    /\ [](FetchesStarted <= Max(0, lastPage - 1))
    /\ [][(DrewStep /\ LoadMoreBlocked) =>
             /\ fetchTasks' = fetchTasks
             /\ requested' = requested
             /\ loading' = FlagAtLoadMore]_vars
    /\ [][(KeyStep(actionUp) /\ selected < cols /\ ~showHelp /\ LoadMoreBlocked) =>
             UNCHANGED << wallpapers, thumbPaths, rendered, selected, scrollRow,
                          cols, cellW, cellH, prevSelected, prevScrollRow,
                          prevCount, showHelp, nextPage, lastPage, loading,
                          loadCh, fetchTasks, requested >>]_vars

\* C24 witness: every page up to lastPage = 4 was asked for, nextPage is 5,
\* and an iteration has just run maybeLoadMore with nothing in flight.
C24_Witness ==
    /\ pc = "loop"
    /\ lastPage = 4
    /\ requested = << 2, 3, 4 >>
    /\ nextPage = 5
    /\ lastDraw.ev = "move"
    /\ ~loading
    /\ fetchTasks = << >>

\* C25: loadCh never holds more than one message; whenever a fetch task has
\* still to send, loadCh is empty, so its send does not block, whether the
\* loop is running or Run has returned; and while the process lives a
\* message enters loadCh exactly when one task ends, one message per task.
C25_OneMessagePerFetch ==
    /\ [](Len(loadCh) <= loadChCap)
    /\ [](fetchTasks # << >> => loadCh = << >>)
    /\ [][pc' \in {"loop", "returned"} =>
             /\ Len(loadCh') <= Len(loadCh) + 1
             /\ Len(fetchTasks') >= Len(fetchTasks) - 1
             /\ (Len(loadCh') = Len(loadCh) + 1) <=>
                    (Len(fetchTasks') = Len(fetchTasks) - 1)]_vars

\* C25 witness: Run has returned from a quit with a fetch in flight, and the
\* task's message sits in loadCh, where nothing will read it.
C25_Witness ==
    /\ pc = "returned"
    /\ ops = << "clear" >>
    /\ loading
    /\ fetchTasks = << >>
    /\ Len(loadCh) = 1

\* The page of the catalog that holds the item with identifier id.
PageOfId(id) ==
    IF id < PageBase(2) THEN 1
    ELSE CHOOSE p \in 2..id : PageBase(p) <= id /\ id < PageBase(p + 1)

\* C26: the pages asked for are 2, 3, 4, ... in that order; the message the
\* loop consumes is the result of the latest request with every earlier
\* request consumed before it (so the k-th consumed is the k-th requested);
\* it is appended at the end of items, and items stays ordered by page.
C26_PagesInOrder ==
    /\ [](\A k \in 1..Len(requested) : requested[k] = k + 1)
    /\ [](\A i, j \in 1..Len(wallpapers) :
             i < j => PageOfId(wallpapers[i].id) <= PageOfId(wallpapers[j].id))
    /\ [][ConsumeStep =>
             LET k == Len(requested)
                 m == Head(loadCh)
             IN  /\ k >= 1
                 /\ fetchTasks = << >>
                 /\ nextPage = requested[k]
                 /\ m.nextPage = requested[k] + 1
                 /\ \A i \in 1..Len(m.wallpapers) :
                       PageOfId(m.wallpapers[i].id) = requested[k]
                 /\ wallpapers' = wallpapers \o m.wallpapers
                 /\ thumbPaths' = thumbPaths \o m.thumbPaths
                 /\ nextPage' = m.nextPage]_vars

\* C26 witness: pages 2 and 3 were asked for in that order, both answered an
\* item, and the second result has just been consumed: the item of page 3
\* follows the item of page 2 at the end of items.
C26_Witness ==
    /\ pc = "loop"
    /\ lastDraw.ev = "load"
    /\ requested = << 2, 3 >>
    /\ nextPage = 4
    /\ Len(wallpapers) >= 3
    /\ wallpapers[Len(wallpapers)].id = PageBase(3)
    /\ wallpapers[Len(wallpapers) - 1].id = PageBase(2)

\* C27: inputCh changes only by the reader appending the chunk it read at
\* the tail and by the loop taking the chunk at the head; the chunk the loop
\* takes is the one it processes (a move key moves the selection as that key
\* does, q ends the loop), once; and the loop changes the grid or ends only
\* in a step that takes a chunk.
C27_InputFifo ==
    /\ [][inputCh' # inputCh =>
             \/ /\ \E c \in TypingChunks : inputCh' = Append(inputCh, c)
                /\ pc' = pc
                /\ GridNow' = GridNow
             \/ /\ inputCh # << >>
                /\ inputCh' = Tail(inputCh)
                /\ pc = "loop"
                /\ IF parseKey(Head(inputCh)) = actionQuit
                   THEN pc' = "returned" /\ result' = "empty" /\ GridNow' = GridNow
                   ELSE /\ pc' = "loop"
                        /\ parseKey(Head(inputCh)) \in MoveActions
                        /\ GridNow' = AfterMove(parseKey(Head(inputCh)), GridNow)]_vars
    /\ [][(pc = "loop" /\ (GridNow' # GridNow \/ pc' = "returned")) =>
             (inputCh # << >> /\ inputCh' = Tail(inputCh))]_vars

\* C27 witness: two different chunks waited in inputCh, the first (a move
\* that changed the selection) has just been processed and the second, q, is
\* still waiting.
C27_Witness ==
    /\ pc = "loop"
    /\ lastDraw.ev = "move"
    /\ lastDraw.pSel # selected
    /\ inputCh = << << 113 >> >>

\* The page numbers a search may ask for.
RequestablePages ==
    UNION {2..lp : lp \in PagesLastPages}

\* The condition of maybeLoadMore on the rows: the loaded rows do not fill
\* the screen, or the selection is within one screenful of the last row.
TriggerHolds ==
    /\ pc = "loop"
    /\ \E lr \in 0..Len(wallpapers), sr \in 0..selected :
          /\ IsCeilDiv(lr, Len(wallpapers), cols)
          /\ IsFloorDiv(sr, selected, cols)
          /\ (lr < VisibleRows \/ sr >= lr - VisibleRows)

\* Every page up to lastPage has been asked for.
AllRequested ==
    \A p \in RequestablePages : p <= lastPage => \E k \in 1..Len(requested) : requested[k] = p

\* C28: under fair scheduling of the fetch tasks and of the select, a fetch
\* started for page p has its result consumed (nextPage passes p, and the
\* in-flight flag is clear after that iteration unless the iteration started
\* the next fetch); every iteration of the loop
\* ends with maybeLoadMore, which starts a fetch when the trigger holds,
\* pages remain and nothing is in flight; and if the trigger holds from some
\* point on, every page up to lastPage is asked for, whether pages fail or
\* not.
C28_PaginationLive ==
    /\ \A p \in RequestablePages : (loading /\ nextPage = p) ~> (nextPage > p)
    /\ [][ConsumeStep => (loading' = FetchStarted /\ nextPage' = nextPage + 1)]_vars
    /\ [][(pc = "loop" /\ pc' = "loop" /\ (ConsumeStep \/ (inputCh # << >> /\ inputCh' = Tail(inputCh))))
           => /\ DrewStep
              /\ (TriggerHolds' /\ ~FlagAtLoadMore /\ nextPage' <= lastPage) => FetchStarted]_vars
    /\ (<>[]TriggerHolds) => <>AllRequested

\* C28 witness: page 2 failed or came back empty, page 3 answered an item,
\* and page 4, the last one, has been asked for as well.
C28_Witness ==
    /\ pc = "loop"
    /\ lastPage = 4
    /\ requested = << 2, 3, 4 >>
    /\ \E i \in 1..Len(wallpapers) : wallpapers[i].id = PageBase(3)
    /\ \A i \in 1..Len(wallpapers) : wallpapers[i].id # PageBase(2)

\* The item at index i of items is cached.
CachedItems ==
    {wallpapers[i + 1] : i \in DOMAIN rendered}

\* C29: the renderer is called for a cell only when the item in it has no
\* cached text, and the text of a cached item stays in the cache, under the
\* item's current index, for as long as the item is in items, through draws,
\* scrolls, page loads and deletions that shift it; so no item is rendered
\* twice, and a cell drawn with a thumbnail is in the cache afterwards.
C29_RenderedOnce ==
    [][pc' \in {"loop", "returned"} =>
         /\ \A j \in lastDraw'.renders : At(wallpapers', j) \notin CachedItems
         /\ \A i \in DOMAIN rendered :
               \A j \in 0..(Len(wallpapers') - 1) :
                  At(wallpapers', j) = At(wallpapers, i) =>
                      (j \in DOMAIN rendered' /\ rendered'[j] = rendered[i])
         /\ \A j \in lastDraw'.cells :
               At(thumbPaths', j) # 0 => j \in DOMAIN rendered']_vars

\* C29 witness: the first item was deleted and the full repaint that followed
\* drew the second item, rendered earlier at index 1, at index 0 without a
\* renderer call.
C29_Witness ==
    /\ pc = "loop"
    /\ lastDraw.ev = "delete"
    /\ 0 \in lastDraw.cells
    /\ lastDraw.renders = {}
    /\ At(wallpapers, 0).id = 2
    /\ 0 \in DOMAIN rendered
    /\ rendered[0] = [kind |-> "image", src |-> 2]

\* C30: draw() returns no error: a cell whose thumbnail path is empty and a
\* cell whose render failed are written as the placeholder block, any other
\* cell as the image of its thumbnail; and after a draw, placeholders or not,
\* the loop is running with no result and no exit status, draw() has
\* remembered selectedIndex, scrollRow and the item count, and every cell
\* written with a thumbnail path is in the cache, a failed render like a
\* successful one.
C30_PlaceholderOnFailure ==
    lastDraw.ev # "-" =>
        /\ \A j \in lastDraw.cells :
              lastDraw.texts[j] =
                  IF At(thumbPaths, j) = 0 \/ At(thumbPaths, j) \in env.badImages
                  THEN [kind |-> "placeholder", src |-> 0]
                  ELSE [kind |-> "image", src |-> At(thumbPaths, j)]
        /\ \A j \in lastDraw.cells :
              At(thumbPaths, j) # 0 =>
                  (j \in DOMAIN rendered /\ rendered[j] = lastDraw.texts[j])
        /\ pc = "loop"
        /\ result = "none"
        /\ exitCode = -1
        /\ prevSelected = selected
        /\ prevScrollRow = scrollRow
        /\ prevCount = Len(wallpapers)

\* C30 witness: the draw after a move wrote the placeholder in a cell whose
\* thumbnail download had failed, the cache holds the placeholder of a cell
\* whose render failed, and the loop is running.
C30_Witness ==
    /\ pc = "loop"
    /\ lastDraw.ev = "move"
    /\ \E j \in lastDraw.cells :
          At(thumbPaths, j) = 0 /\ lastDraw.texts[j].kind = "placeholder"
    /\ \E i \in DOMAIN rendered :
          At(thumbPaths, i) \in env.badImages /\ rendered[i].kind = "placeholder"

\* Run returned because raw mode could not be entered: an error with no
\* handler having run.
RawModeRefused ==
    /\ pc \in {"returned", "exited"}
    /\ result = "error"
    /\ ops = << >>

\* C31: when raw mode cannot be entered Run returns an error with the
\* terminal untouched (not raw, cursor shown), layout not computed, nothing
\* drawn, no thumbnail downloaded or rendered, and no reader, fetch or apply
\* task started: the grid is as NewGrid made it.
C31_RawModeRefused ==
    RawModeRefused =>
        /\ ~rawMode
        /\ ~cursorHidden
        /\ cols = 0 /\ cellW = 0 /\ cellH = 0
        /\ prevSelected = -1 /\ prevScrollRow = 0 /\ prevCount = 0
        /\ lastDraw = NoDraw
        /\ \A i \in 1..Len(thumbPaths) : thumbPaths[i] = 0
        /\ rendered = EmptyCache
        /\ stdin = "off"
        /\ inputCh = << >>
        /\ ~loading
        /\ fetchTasks = << >>
        /\ loadCh = << >>
        /\ requested = << >>
        /\ bgTasks = EmptyBag
        /\ Len(wallpapers) > 0
        /\ selected = 0 /\ scrollRow = 0 /\ nextPage = 2

\* C31 witness: Run has returned the raw-mode error and main has not yet
\* ended the process.
C31_Witness ==
    /\ pc = "returned"
    /\ RawModeRefused
    /\ exitCode = -1

\* Run has ended: it returned, or the process is gone.
Terminated ==
    pc \in {"returned", "exited", "crashed"}

\* C32: the running loop is in Browsing (showHelp false) or HelpOverlay
\* (showHelp true).  It starts in Browsing with a full draw of the first page;
\* a help key flips the state and no other step changes it; every draw made
\* in HelpOverlay writes the screen clear and the overlay and no cell; the
\* help key that leads back to Browsing draws a full repaint; and once Run
\* has ended the loop is never running again and the state stays as it was.
C32_HelpToggle ==
    /\ [](lastDraw.ev = "start" =>
             (~showHelp /\ lastDraw.clear /\ ~lastDraw.overlay
              /\ lastDraw.cells = VisibleCells /\ lastDraw.cells # {}))
    /\ [](lastDraw.ev # "-" /\ showHelp =>
             (lastDraw.clear /\ lastDraw.overlay /\ lastDraw.cells = {}))
    /\ [][IF KeyStep(actionHelp) THEN showHelp' = ~showHelp
                                  ELSE showHelp' = showHelp]_vars
    /\ [][(KeyStep(actionHelp) /\ showHelp) =>
             /\ lastDraw'.clear
             /\ ~lastDraw'.overlay
             /\ lastDraw'.cells = VisibleCells'
             /\ lastDraw'.cells # {}]_vars
    /\ [][Terminated => (Terminated' /\ showHelp' = showHelp /\ GridNow' = GridNow)]_vars

\* C32 witness: the overlay was shown and a help key has just led back to
\* Browsing with a full repaint.
C32_Witness ==
    /\ pc = "loop"
    /\ ~showHelp
    /\ lastDraw.ev = "key"
    /\ lastDraw.pSel = -1
    /\ lastDraw.clear
    /\ lastDraw.cells = VisibleCells

\* The conditions named for a full repaint: first draw (or prevSelected reset
\* by the handler), scrollRow changed, item count changed.
FullRepaintDue ==
    \/ lastDraw.pSel < 0
    \/ lastDraw.pScr # scrollRow
    \/ lastDraw.pCnt # Len(wallpapers)

\* The draw wrote the screen clear and exactly the cells of the rows
\* scrollRow .. scrollRow + visibleRows - 1.
FullRepaintDone ==
    /\ lastDraw.clear
    /\ \A i \in 0..(Len(wallpapers) - 1) :
          i \in lastDraw.cells <=>
              \E r \in scrollRow..(scrollRow + VisibleRows - 1) :
                  r * cols <= i /\ i < (r + 1) * cols
    /\ \A i \in lastDraw.cells : i >= 0 /\ i < Len(wallpapers)

\* C33 as stated: on the first draw, whenever scrollRow changed and whenever
\* the item count changed, the draw is a full repaint.
C33_AsStated ==
    (lastDraw.ev # "-" /\ FullRepaintDue) => FullRepaintDone

\* C33: while the help overlay is not shown, the draw is a full repaint (the
\* screen clear, every cell whose row is in [scrollRow, scrollRow +
\* visibleRows) and no other cell) on the first draw, whenever scrollRow
\* changed and whenever the item count changed, and the screen is cleared in
\* no other case; while the overlay is shown no cell is written.
C33_FullRepaint ==
    lastDraw.ev # "-" =>
        IF showHelp
        THEN lastDraw.cells = {}
        ELSE /\ lastDraw.ev = "start" => FullRepaintDue
             /\ FullRepaintDue => FullRepaintDone
             /\ lastDraw.clear => FullRepaintDue

\* C33 witness: with the grid on screen a move scrolled the view and the
\* draw repainted the row now on screen.
C33_Witness ==
    /\ pc = "loop"
    /\ ~showHelp
    /\ lastDraw.ev = "move"
    /\ lastDraw.pScr # scrollRow
    /\ FullRepaintDone
    /\ lastDraw.cells # {}

\* C34 as stated: while the process runs, the background tasks are the one
\* input reader (once Run has started it) and at most one page-fetch task,
\* and nothing else.
C34_AsStated ==
    /\ Len(fetchTasks) <= 1
    /\ pc = "loop" => stdin \in {"reading", "closed"}
    /\ bgTasks = EmptyBag

\* The key bindings: single bytes and the final byte of an arrow sequence.
ByteBindings ==
    { <<104, actionLeft>>, <<106, actionDown>>, <<107, actionUp>>,
      <<108, actionRight>>, <<13, actionSelect>>, <<10, actionSelect>>,
      <<113, actionQuit>>, <<3, actionQuit>>, <<115, actionSetBg>>,
      <<100, actionDelete>>, <<111, actionOpen>>, <<63, actionHelp>> }

ArrowBindings ==
    { <<65, actionUp>>, <<66, actionDown>>, <<67, actionRight>>, <<68, actionLeft>> }

\* Chunk c is a bound single byte / starts with an arrow sequence.
IsBoundByte(c) ==
    Len(c) = 1 /\ \E b \in ByteBindings : b[1] = c[1]

IsArrow(c) ==
    Len(c) >= 3 /\ c[1] = 27 /\ c[2] = 91 /\ \E b \in ArrowBindings : b[1] = c[3]

\* C35: parseKey answers one action of the closed set for every chunk: a
\* bound single byte and an arrow sequence ESC [ A/B/C/D map to their action
\* (so k and ESC [ A, j and ESC [ B, l and ESC [ C, h and ESC [ D agree),
\* every other chunk maps to the no-op action; and handling a chunk that
\* maps to the no-op action changes nothing in the grid.
C35_ParseKeyTotal ==
    /\ [](\A i \in 1..Len(inputCh) :
             LET c == inputCh[i]
             IN  /\ parseKey(c) \in actionNone..actionQuit
                 /\ \A b \in ByteBindings :
                       (Len(c) = 1 /\ c[1] = b[1]) => parseKey(c) = b[2]
                 /\ \A b \in ArrowBindings :
                       (Len(c) >= 3 /\ c[1] = 27 /\ c[2] = 91 /\ c[3] = b[1])
                           => parseKey(c) = b[2]
                 /\ (~IsBoundByte(c) /\ ~IsArrow(c)) => parseKey(c) = actionNone)
    /\ [][(pc = "loop" /\ inputCh # << >> /\ inputCh' = Tail(inputCh)
            /\ ~IsBoundByte(Head(inputCh)) /\ ~IsArrow(Head(inputCh)))
           => /\ pc' = "loop"
              /\ lastDraw'.cells = {}
              /\ ~lastDraw'.clear
              /\ UNCHANGED << wallpapers, thumbPaths, rendered, selected, scrollRow,
                              prevSelected, prevScrollRow, prevCount, showHelp,
                              nextPage, loading, fetchTasks, loadCh, requested,
                              bgTasks, rawMode, cursorHidden, result >>]_vars

\* C35 witness: a chunk of two bound bytes (j j, read in one piece) is
\* waiting in inputCh after an earlier no-op chunk was handled without a
\* change to the grid.
C35_Witness ==
    /\ pc = "loop"
    /\ inputCh = << << 106, 106 >> >>
    /\ parseKey(Head(inputCh)) = actionNone
    /\ selected = 0
    /\ prevSelected = 0

\* C36: the step that consumes a page-load completion keeps every item and
\* every thumbnail path at its index (the old sequences are prefixes of the
\* new ones, which grow by the message's items), keeps the selection, the
\* scroll row, the help flag and every entry the render cache had, sets
\* nextPage to the message's, and clears the in-flight flag, which is set
\* again only by a fetch started in the same iteration; it touches neither
\* the input, the terminal mode nor the result.
C36_LoadFrame ==
    [][ConsumeStep =>
          LET m == Head(loadCh)
              n == Len(wallpapers)
          IN  /\ Len(wallpapers') = n + Len(m.wallpapers)
              /\ SubSeq(wallpapers', 1, n) = wallpapers
              /\ SubSeq(wallpapers', n + 1, Len(wallpapers')) = m.wallpapers
              /\ Len(thumbPaths') = Len(thumbPaths) + Len(m.thumbPaths)
              /\ SubSeq(thumbPaths', 1, Len(thumbPaths)) = thumbPaths
              /\ selected' = selected
              /\ scrollRow' = scrollRow
              /\ showHelp' = showHelp
              /\ \A i \in DOMAIN rendered :
                    i \in DOMAIN rendered' /\ rendered'[i] = rendered[i]
              /\ nextPage' = m.nextPage
              /\ loading
              /\ loading' = FetchStarted
              /\ UNCHANGED << cols, cellW, cellH, inputCh, stdin, bgTasks, rawMode,
                              cursorHidden, tempDir, result, exitCode, ops >>]_vars

\* C36 witness: a page of one item has just been appended behind the two
\* items of the first page while the second cell was selected and both cells
\* were cached.
C36_Witness ==
    /\ pc = "loop"
    /\ lastDraw.ev = "load"
    /\ lastDraw.pCnt = 2
    /\ Len(wallpapers) = 3
    /\ selected = 1
    /\ {0, 1} \subseteq DOMAIN rendered
    /\ ~loading

\* C37 as stated: an index a pending setWallpaperBg task was started with is
\* an index of items, and no step changes the item at it: the task, whenever
\* it runs, reads the item that was selected when s was pressed.
C37_AsStated ==
    /\ [](\A idx \in BagToSet(bgTasks) : idx < Len(wallpapers))
    /\ [][\A idx \in BagToSet(bgTasks) :
             (idx < Len(wallpapers) /\ idx < Len(wallpapers'))
                 => At(wallpapers', idx) = At(wallpapers, idx)]_vars

\* C38: while the loop runs, g.loading is true exactly when a fetch is in
\* flight: a fetch goroutine has been started and has not sent yet, or its
\* message waits in loadCh.
C38_FlagExact ==
    pc = "loop" => (loading <=> (fetchTasks # << >> \/ loadCh # << >>))

\* C38 witness: a move was handled while the message of the finished fetch
\* was waiting in loadCh: the flag is still set, and no fetch goroutine is
\* left.
C38_Witness ==
    /\ pc = "loop"
    /\ lastDraw.ev = "move"
    /\ loading
    /\ fetchTasks = << >>
    /\ Len(loadCh) = 1

====
